---- MODULE Spec2Model ----
(***************************************************************************)
(* A model of pywemo_setup.py: the four click commands (list, rename,      *)
(* reset, setup) and the helpers they share.  The script is sequential, so *)
(* the model is one program counter pc walking through the code; the       *)
(* external collaborators (pywemo, nmcli, the csv file, the terminal) are  *)
(* nondeterministic choices made at the step that calls them.              *)
(*                                                                         *)
(* Python strings on which the code computes (lower, strip, startswith,    *)
(* rsplit) are sequences of one-character strings.  Strings that are only  *)
(* passed around are TLA+ strings.                                         *)
(***************************************************************************)
EXTENDS Integers, Sequences, FiniteSets, TLC

(***************************************************************************)
(* Bounds of the model.                                                    *)
(***************************************************************************)
MaxDevices == 2     \* longest list pywemo.discover_devices() returns
MaxRows == 2        \* most rows read from the csv file after the header
MaxNets == 2        \* most lines in the output of nmcli
MaxAnomalies == 2   \* most diagnostic calls of one device that do not simply answer
MaxInfo == 2        \* largest count of -i on the list command

(***************************************************************************)
(* str methods                                                             *)
(***************************************************************************)
UPPER == <<"A","B","C","D","E","F","G","H","I","J","K","L","M",
           "N","O","P","Q","R","S","T","U","V","W","X","Y","Z">>
LOWER == <<"a","b","c","d","e","f","g","h","i","j","k","l","m",
           "n","o","p","q","r","s","t","u","v","w","x","y","z">>

lower_char(c) ==
    IF \E k \in DOMAIN UPPER : UPPER[k] = c
    THEN LOWER[CHOOSE k \in DOMAIN UPPER : UPPER[k] = c]
    ELSE c

\* str.lower()
lower(s) == IF s = <<>> THEN <<>> ELSE [k \in 1..Len(s) |-> lower_char(s[k])]

\* str.startswith(prefix)
startswith(s, prefix) ==
    /\ Len(s) >= Len(prefix)
    /\ SubSeq(s, 1, Len(prefix)) = prefix

Whitespace == {" "}

RECURSIVE lstrip(_)
lstrip(s) == IF s # <<>> /\ Head(s) \in Whitespace THEN lstrip(Tail(s)) ELSE s

RECURSIVE rstrip(_)
rstrip(s) ==
    IF s # <<>> /\ s[Len(s)] \in Whitespace
    THEN rstrip(SubSeq(s, 1, Len(s) - 1))
    ELSE s

\* str.strip()
strip(s) == rstrip(lstrip(s))

\* position of the n-th sep counted from the right, 0 when there are fewer
RECURSIVE rfind_nth(_, _, _)
rfind_nth(s, sep, n) ==
    IF s = <<>> THEN 0
    ELSE IF s[Len(s)] = sep
         THEN IF n = 1 THEN Len(s)
              ELSE rfind_nth(SubSeq(s, 1, Len(s) - 1), sep, n - 1)
         ELSE rfind_nth(SubSeq(s, 1, Len(s) - 1), sep, n)

\* str.rsplit(sep, maxsplit): the list of pieces, at most maxsplit + 1 of them
RECURSIVE rsplit(_, _, _)
rsplit(s, sep, maxsplit) ==
    IF maxsplit = 0 \/ rfind_nth(s, sep, 1) = 0 THEN <<s>>
    ELSE LET p == rfind_nth(s, sep, 1)
         IN  Append(rsplit(SubSeq(s, 1, p - 1), sep, maxsplit - 1),
                    SubSeq(s, p + 1, Len(s)))

\* sep.join(parts)
RECURSIVE join(_, _)
join(sep, parts) ==
    IF parts = <<>> THEN <<>>
    ELSE IF Len(parts) = 1 THEN parts[1]
    ELSE parts[1] \o <<sep>> \o join(sep, Tail(parts))

SeqsUpTo(S, n) == UNION {[1..k -> S] : k \in 0..n}

\* Optional[str]: <<>> is None, <<s>> is the string s
None == <<>>
Some(s) == <<s>>

(***************************************************************************)
(* The strings of the model                                                *)
(***************************************************************************)
Lamp == <<"L","a","m","p">>
lamp2 == <<"l","a","m","p","2">>
LAMP == <<"L","A","M","P">>
Bulb == <<"B","u","l","b">>
UDN1 == <<"u","1">>
UDN2 == <<"u","2">>
UDN3 == <<"u","3">>
IP1 == <<"h","1">>
IP2 == <<"h","2">>
IP3 == <<"h","3">>
NAME_A == <<"A">>
NAME_B == <<"B">>
WEMO_PREFIX == <<"w","e","m","o",".">>
UPNPERROR == <<"u","p","n","p","e","r","r","o","r">>
GET == <<"g","e","t">>
GetFriendlyName == <<"G","e","t","F","r","i","e","n","d","l","y","N","a","m","e">>
GetMacAddr == <<"G","e","t","M","a","c","A","d","d","r">>
GetMetaInfo == <<"G","e","t","M","e","t","a","I","n","f","o">>
GetSignalStrength == <<"G","e","t","S","i","g","n","a","l","S","t","r","e","n","g","t","h">>
GetFirmwareVersion == <<"G","e","t","F","i","r","m","w","a","r","e","V","e","r","s","i","o","n">>
GetExtMetaInfo == <<"G","e","t","E","x","t","M","e","t","a","I","n","f","o">>
GetDeviceInformation == <<"G","e","t","D","e","v","i","c","e","I","n","f","o","r","m","a","t","i","o","n">>
SECRET == <<"s","e","c","r","e","t">>
SSID_WEMO_L == <<"w","e","m","o",".","l">>
SSID_WEMO_K == <<"W","E","M","O",".","K">>
SSID_MYWEMO == <<"m","y","w","e","m","o">>
UPnPError == <<"U","P","n","P","E","r","r","o","r">>
Invalid == <<"I","n","v","a","l","i","d">>
SetBinaryState == <<"S","e","t","B","i","n","a","r","y","S","t","a","t","e">>
GetApList == <<"G","e","t","A","p","L","i","s","t">>
GetNetworkList == <<"G","e","t","N","e","t","w","o","r","k","L","i","s","t">>
getNetworkStatus == <<"g","e","t","N","e","t","w","o","r","k","S","t","a","t","u","s">>
getaplist == <<"g","e","t","a","p","l","i","s","t">>
getnetworklist == <<"g","e","t","n","e","t","w","o","r","k","l","i","s","t">>

(***************************************************************************)
(* The devices pywemo can discover.  device.services is the ordered dict   *)
(* of service name -> ordered action names; every device of the model      *)
(* exposes the same two services.                                          *)
(***************************************************************************)
Services ==
    << [name |-> "basicevent", actions |-> <<GetFriendlyName, SetBinaryState>>],
       [name |-> "WiFiSetup", actions |-> <<GetApList, getNetworkStatus, GetNetworkList>>] >>

Universe ==
    { [name |-> Lamp,  udn |-> UDN1, host |-> IP1],
      [name |-> lamp2, udn |-> UDN2, host |-> IP2],
      [name |-> LAMP,  udn |-> UDN3, host |-> IP3] }

\* what pywemo.discover_devices() may return: any devices, in any order
DeviceLists ==
    {ds \in SeqsUpTo(Universe, MaxDevices) :
        \A a, b \in DOMAIN ds : a # b => ds[a] # ds[b]}

(***************************************************************************)
(* The command line                                                        *)
(***************************************************************************)
NoArgs ==
    [cmd |-> "none", info |-> 0, data |-> FALSE, wifi |-> FALSE, full |-> FALSE,
     reset_all |-> FALSE, setup_all |-> FALSE, name |-> None, ssid |-> "Home",
     password |-> <<>>]

\* --name: absent, or a name to look for
Targets(all) ==
    IF all THEN {None, Some(LAMP)} ELSE {None, Some(LAMP), Some(lamp2), Some(Bulb)}

\* --data, --wifi, --full
ResetFlags == {<<FALSE, FALSE, FALSE>>, <<TRUE, FALSE, FALSE>>, <<FALSE, FALSE, TRUE>>}

\* --password: '' is the default when the option is not given
Passwords == {<<>>, SECRET}

ListArgs == {[NoArgs EXCEPT !.cmd = "list", !.info = n] : n \in 0..MaxInfo}

RenameArgs == {[NoArgs EXCEPT !.cmd = "rename"]}

ResetArgs ==
    UNION {{[NoArgs EXCEPT !.cmd = "reset", !.data = f[1], !.wifi = f[2], !.full = f[3],
                           !.reset_all = a, !.name = n] :
               f \in ResetFlags, n \in Targets(a)} : a \in BOOLEAN}

SetupArgs ==
    UNION {{[NoArgs EXCEPT !.cmd = "setup", !.setup_all = a, !.name = n, !.password = p] :
               p \in Passwords, n \in Targets(a)} : a \in BOOLEAN}

CommandLines == ListArgs \cup RenameArgs \cup ResetArgs \cup SetupArgs

(***************************************************************************)
(* State                                                                   *)
(***************************************************************************)
VARIABLES
    args,               \* the parsed command line (never assigned)
    data, wifi,         \* click_wemo_reset: data and wifi (reassigned by `if full`)
    password,           \* click_wemo_setup: password (reassigned by getpass)
    pc,                 \* position in the code
    ret,                \* where discover_and_log_devices returns to
    out,                \* what the run has done so far, in order: the log lines
                        \* of the commands, the prompts, the nmcli runs, the
                        \* reset and rename calls, the exceptions raised (the
                        \* separator lines, the debug lines and the 'found
                        \* device: ...' line of each device are left out)
    \* discover_and_log_devices
    only_needing_setup, verbose, devices, di, not_setup,
    \* log_details
    ci, failed_calls, report,
    \* wemo_rename
    udn_to_name, ip_to_name, row, before,
    \* the for loops of the commands over devices
    i, selected,
    \* click_wemo_setup / find_wemo_aps
    networks,           \* what nmcli listed, until find_wemo_aps has returned
    wemo_aps, current, ai,
    pushed              \* the device.setup calls since the last join

cli_vars == <<args, data, wifi, password>>
disc_vars == <<only_needing_setup, verbose, devices, di, not_setup>>
det_vars == <<ci, failed_calls, report>>
ren_vars == <<udn_to_name, ip_to_name, row, before>>
loop_vars == <<i, selected>>
ap_vars == <<networks, wemo_aps, current, ai, pushed>>
vars == <<cli_vars, pc, ret, out, disc_vars, det_vars, ren_vars, loop_vars, ap_vars>>

\* one entry of out
Ev(kind, what, n, arg) == [kind |-> kind, what |-> what, n |-> n, arg |-> arg]
Log(level, msg, n) == Ev(level, msg, n, <<>>)

\* dicts are functions from their keys
EmptyMap == <<>>
Put(m, k, v) == [x \in DOMAIN m \cup {k} |-> IF x = k THEN v ELSE m[x]]
Get(m, k, default) == IF k \in DOMAIN m THEN m[k] ELSE default

Init ==
    /\ args \in CommandLines
    /\ data = args.data /\ wifi = args.wifi
    /\ password = args.password
    /\ pc = "start"
    /\ ret = "none"
    /\ out = <<>>
    /\ only_needing_setup = FALSE /\ verbose = 0 /\ devices = <<>> /\ di = 0
    /\ not_setup = <<>>
    /\ ci = 0 /\ failed_calls = <<>> /\ report = <<>>
    /\ udn_to_name = EmptyMap /\ ip_to_name = EmptyMap /\ row = <<>>
    /\ before = <<EmptyMap, EmptyMap>>
    /\ i = 0 /\ selected = 0
    /\ networks = <<>> /\ wemo_aps = <<>> /\ current = <<>> /\ ai = 0
    /\ pushed = <<>>

(***************************************************************************)
(* log_details                                                             *)
(***************************************************************************)
Call(service, action, key) == [service |-> service, action |-> action, key |-> key]

\* `skip_actions` of verbose == 2, and {} above it
skip_actions(verb) == IF verb = 2 THEN {getaplist, getnetworklist} ELSE {}

\* the (service, action, None) tuples of one service, in the order of its actions
RECURSIVE get_actions(_, _, _)
get_actions(service_name, action_names, verb) ==
    IF action_names = <<>> THEN <<>>
    ELSE LET action_name == Head(action_names)
             rest == get_actions(service_name, Tail(action_names), verb)
         IN  IF lower(action_name) \in skip_actions(verb) THEN rest
             ELSE IF startswith(lower(action_name), GET)
                  THEN <<Call(service_name, action_name, None)>> \o rest
                  ELSE rest

RECURSIVE all_get_actions(_, _)
all_get_actions(services, verb) ==
    IF services = <<>> THEN <<>>
    ELSE get_actions(Head(services).name, Head(services).actions, verb)
         \o all_get_actions(Tail(services), verb)

\* the list data_to_print that log_details builds for a verbosity
data_to_print(verb) ==
    IF verb = 0 THEN
        << Call("basicevent", GetFriendlyName, Some("FriendlyName")),
           Call("basicevent", GetMacAddr, None),
           Call("metainfo", GetMetaInfo, Some("MetaInfo")) >>
    ELSE IF verb = 1 THEN
        << Call("basicevent", GetFriendlyName, Some("FriendlyName")),
           Call("basicevent", GetSignalStrength, Some("SignalStrength")),
           Call("basicevent", GetMacAddr, None),
           Call("firmwareupdate", GetFirmwareVersion, Some("FirmwareVersion")),
           Call("metainfo", GetMetaInfo, Some("MetaInfo")),
           Call("metainfo", GetExtMetaInfo, Some("ExtMetaInfo")),
           Call("deviceinfo", GetDeviceInformation, Some("DeviceInformation")) >>
    ELSE all_get_actions(Services, verb)

\* What device.services[s].actions[a]() can do: raise, return a dict that may
\* hold the key the table asks for, or return the dict of a SOAP fault, which
\* holds 'faultstring'.
Exceptions == {"AttributeError", "KeyError", "TypeError", "ActionException"}
FaultStrings == {Some(UPnPError), Some(Invalid)}
Outcomes ==
    [exc : {"none"}, faultstring : {None}, has_key : BOOLEAN]
    \cup [exc : {"none"}, faultstring : FaultStrings, has_key : {FALSE}]
    \cup [exc : Exceptions, faultstring : {None}, has_key : {FALSE}]

\* Faulty variant: an except clause that forgets TypeError
CaughtWithoutTypeError == {"AttributeError", "KeyError"}

\* the exceptions the except clause of log_details names
CaughtByLogDetails == {"AttributeError", "KeyError", "TypeError"}

\* Faulty variant: `result['faultstring'] == 'upnperror'`, without `.lower()`
is_failed_case_sensitive(result) ==
    /\ result.faultstring # None
    /\ result.faultstring[1] = UPNPERROR

\* result['faultstring'].lower() == 'upnperror'; a KeyError is `pass`
is_failed(result) ==
    /\ result.faultstring # None
    /\ lower(result.faultstring[1]) = UPNPERROR

\* the fault marker of a device-reported error: faultstring 'UPnPError' in any case
HasFaultMarker(result) ==
    /\ result.exc = "none"
    /\ result.faultstring # None
    /\ lower(result.faultstring[1]) = lower(UPnPError)

\* One line of the report of a device.  sect and shown are what the code
\* prints; call is the position in data_to_print; marker, raised and has_key
\* record what the call did: answered with the fault marker, raised an
\* exception, answered with the key the table asks for.
Line(sect, call, shown, result) ==
    [sect |-> sect, call |-> call, shown |-> shown,
     marker |-> HasFaultMarker(result), raised |-> result.exc # "none",
     has_key |-> result.has_key]

NoResult == [exc |-> "none", faultstring |-> None, has_key |-> FALSE]

\* the line LOG.info prints for a result that was not deferred
shown_line(call, entry, result) ==
    Line("main", call,
         IF entry.key # None /\ result.has_key THEN "field" ELSE "whole",
         result)

\* the section printed after the loop: the warning, then the deferred results
failed_section(failed) ==
    (IF failed # <<>> THEN <<Line("header", 0, "", NoResult)>> ELSE <<>>)
    \o [k \in 1..Len(failed) |-> Line("failed", failed[k].call, "whole", failed[k].result)]

\* calls of this report that did something other than answer with the key asked for
Anomalies ==
    Len(failed_calls)
    + Cardinality({k \in DOMAIN report :
                      \/ report[k].sect = "warning"
                      \/ /\ report[k].sect = "main"
                         /\ report[k].shown = "whole"
                         /\ data_to_print(verbose)[report[k].call].key # None})

Plain(entry, result) ==
    /\ result.exc = "none"
    /\ ~HasFaultMarker(result)
    /\ result.has_key = (entry.key # None)

\* an uncaught exception leaves the command with a traceback
Crash(exc) ==
    /\ pc' = "crashed"
    /\ out' = Append(out, Ev("exception", exc, 0, <<>>))

\* one turn of `for service_name, action_name, key in data_to_print`
log_details_call ==
    /\ pc = "log_details"
    /\ ci < Len(data_to_print(verbose))
    /\ LET entry == data_to_print(verbose)[ci + 1] IN
       \E result \in Outcomes :
          /\ entry.key = None => ~result.has_key
          /\ Plain(entry, result) \/ Anomalies < MaxAnomalies
          /\ IF result.exc # "none"
             THEN IF result.exc \in CaughtByLogDetails
                  THEN /\ report' = Append(report, Line("warning", ci + 1, "exc", result))
                       /\ ci' = ci + 1
                       /\ UNCHANGED <<pc, out, failed_calls>>
                  ELSE /\ Crash(result.exc)
                       /\ UNCHANGED <<ci, failed_calls, report>>
             ELSE IF is_failed(result)
                  THEN /\ failed_calls' = Append(failed_calls,
                                  [call |-> ci + 1, result |-> result])
                       /\ ci' = ci + 1
                       /\ UNCHANGED <<pc, out, report>>
                  ELSE /\ report' = Append(report, shown_line(ci + 1, entry, result))
                       /\ ci' = ci + 1
                       /\ UNCHANGED <<pc, out, failed_calls>>
    /\ UNCHANGED <<cli_vars, ret, disc_vars, ren_vars, loop_vars, ap_vars>>

\* after the loop: `if failed_calls: LOG.warning(...)`, the deferred results, return
log_details_return ==
    /\ pc = "log_details"
    /\ ci = Len(data_to_print(verbose))
    /\ report' = report \o failed_section(failed_calls)
    /\ pc' = "dev_loop"
    /\ UNCHANGED <<cli_vars, ret, out, disc_vars, ci, failed_calls, ren_vars,
                   loop_vars, ap_vars>>

(***************************************************************************)
(* discover_and_log_devices                                                *)
(***************************************************************************)
\* the call discover_and_log_devices(only_needing_setup, verbose), returning to r
CallDiscover(only, verb, r) ==
    /\ only_needing_setup' = only
    /\ verbose' = verb
    /\ ret' = r
    /\ pc' = "discover"
    /\ UNCHANGED <<devices, di, not_setup>>

\* devices = pywemo.discover_devices()
discover_devices ==
    /\ pc = "discover"
    /\ \E ds \in DeviceLists : devices' = ds
    /\ di' = 0
    /\ not_setup' = <<>>
    /\ pc' = "dev_loop"
    /\ UNCHANGED <<cli_vars, ret, out, only_needing_setup, verbose, det_vars,
                   ren_vars, loop_vars, ap_vars>>

\* device.WiFiSetup.GetNetworkStatus()['NetworkStatus']
NetworkStatuses == {"0", "1", "3"}

\* a turn of the loop with only_needing_setup
discover_needing_setup ==
    /\ pc = "dev_loop"
    /\ only_needing_setup
    /\ di < Len(devices)
    /\ di' = di + 1
    /\ \E status \in NetworkStatuses :
          IF status \notin {"1"}
          THEN not_setup' = Append(not_setup, devices[di + 1])
          ELSE UNCHANGED not_setup
    /\ UNCHANGED <<cli_vars, pc, ret, out, only_needing_setup, verbose, devices,
                   det_vars, ren_vars, loop_vars, ap_vars>>

\* a turn of the loop without it: 'found device' and the call of log_details
discover_found_device ==
    /\ pc = "dev_loop"
    /\ ~only_needing_setup
    /\ di < Len(devices)
    /\ di' = di + 1
    /\ IF verbose >= 0
       THEN /\ pc' = "log_details"
            /\ ci' = 0
            /\ failed_calls' = <<>>
            /\ report' = <<>>
       ELSE UNCHANGED <<pc, det_vars>>
    /\ UNCHANGED <<cli_vars, ret, out, only_needing_setup, verbose, devices, not_setup,
                   ren_vars, loop_vars, ap_vars>>

\* after the loop: return not_setup, or log 'found %s devices' and return devices
discover_return ==
    /\ pc = "dev_loop"
    /\ di = Len(devices)
    /\ pc' = ret
    /\ IF only_needing_setup
       THEN /\ devices' = not_setup
            /\ UNCHANGED <<out, det_vars>>
       ELSE /\ out' = Append(out, Log("info", "found devices", Len(devices)))
            /\ ci' = 0 /\ failed_calls' = <<>> /\ report' = <<>>
            /\ UNCHANGED devices
    /\ di' = 0
    /\ not_setup' = <<>>
    /\ UNCHANGED <<cli_vars, ret, only_needing_setup, verbose, ren_vars, loop_vars,
                   ap_vars>>

(***************************************************************************)
(* list                                                                    *)
(***************************************************************************)
wemo_discover ==
    /\ pc = "start"
    /\ args.cmd = "list"
    /\ CallDiscover(FALSE, args.info + 1, "done")
    /\ UNCHANGED <<cli_vars, out, det_vars, ren_vars, loop_vars, ap_vars>>

(***************************************************************************)
(* rename                                                                  *)
(***************************************************************************)
\* The rows csv.reader yields after the header line: lists of fields.
UdnFields == {<<>>, <<" ">>, UDN1, <<" ">> \o UDN1 \o <<" ">>, <<"#">> \o UDN1}
IpFields == {<<>>, IP1, IP2 \o <<" ">>}
NameFields == {<<>>, <<" ">>, NAME_A, <<" ">> \o NAME_B}
Rows ==
    {<<>>}
    \cup {<<u>> : u \in UdnFields}
    \cup {<<u, a>> : u \in UdnFields, a \in IpFields}
    \cup {<<u, a, n>> : u \in UdnFields, a \in IpFields, n \in NameFields}
    \cup {<<u, a, n, x>> : u \in UdnFields, a \in IpFields, n \in NameFields,
                           x \in {<<>>, NAME_A}}

\* `if not row or len(row) < 3 or row[0].startswith('#'): continue`
skip_row(r) == r = <<>> \/ Len(r) < 3 \/ startswith(r[1], <<"#">>)

\* `udn, ip, name = [i.strip() for i in row]` raises ValueError unless there
\* are exactly three fields
unpack_fails(r) == Len(r) # 3

\* the two dicts after the body of the loop ran on a row that unpacks
add_row(r, udn_map, ip_map) ==
    LET udn == strip(r[1])
        ip == strip(r[2])
        name == strip(r[3])
    IN  IF name = <<>> THEN <<udn_map, ip_map>>
        ELSE << IF udn # <<>> THEN Put(udn_map, udn, name) ELSE udn_map,
                IF ip # <<>> THEN Put(ip_map, ip, name) ELSE ip_map >>

\* open the file and read the header line
wemo_rename ==
    /\ pc = "start"
    /\ args.cmd = "rename"
    /\ udn_to_name' = EmptyMap
    /\ ip_to_name' = EmptyMap
    /\ pc' = "read_rows"
    /\ UNCHANGED <<cli_vars, ret, out, disc_vars, det_vars, row, before, loop_vars,
                   ap_vars>>

\* one turn of `for row in csv.reader(fin)`; i counts the rows read
rename_read_row ==
    /\ pc = "read_rows"
    /\ i < MaxRows
    /\ \E r \in Rows :
          /\ row' = r
          /\ before' = <<udn_to_name, ip_to_name>>
          /\ i' = i + 1
          /\ IF skip_row(r)
             THEN UNCHANGED <<udn_to_name, ip_to_name, pc, out>>
             ELSE IF unpack_fails(r)
                  THEN Crash("ValueError") /\ UNCHANGED <<udn_to_name, ip_to_name>>
                  ELSE /\ udn_to_name' = add_row(r, udn_to_name, ip_to_name)[1]
                       /\ ip_to_name' = add_row(r, udn_to_name, ip_to_name)[2]
                       /\ UNCHANGED <<pc, out>>
    /\ UNCHANGED <<cli_vars, ret, disc_vars, det_vars, selected, ap_vars>>

\* the file is exhausted: devices = discover_and_log_devices()
rename_discover ==
    /\ pc = "read_rows"
    /\ row' = <<>>
    /\ before' = <<EmptyMap, EmptyMap>>
    /\ i' = 0
    /\ CallDiscover(FALSE, 0, "rename_loop")
    /\ UNCHANGED <<cli_vars, out, det_vars, udn_to_name, ip_to_name, selected, ap_vars>>

\* Faulty variant: the two lookups in the other order: the IP wins
chosen_name_ip_first(device, udn_map, ip_map) ==
    Get(ip_map, device.host, Get(udn_map, device.udn, <<>>))

\* `name = ip_to_name.get(ip, ''); name = udn_to_name.get(udn, name)`
chosen_name(device, udn_map, ip_map) ==
    Get(udn_map, device.udn, Get(ip_map, device.host, <<>>))

\* one turn of `for device in devices`
rename_device ==
    /\ pc = "rename_loop"
    /\ i < Len(devices)
    /\ i' = i + 1
    /\ LET name == chosen_name(devices[i + 1], udn_to_name, ip_to_name) IN
       IF name # <<>>
       THEN out' = out \o << Log("info", "changing name", i + 1),
                             Ev("call", "ChangeFriendlyName", i + 1, name) >>
       ELSE out' = Append(out, Log("info", "no name found", i + 1))
    /\ UNCHANGED <<cli_vars, pc, ret, disc_vars, det_vars, ren_vars, selected, ap_vars>>

rename_return ==
    /\ pc = "rename_loop"
    /\ i = Len(devices)
    /\ pc' = "done"
    /\ UNCHANGED <<cli_vars, ret, out, disc_vars, det_vars, ren_vars, loop_vars, ap_vars>>

(***************************************************************************)
(* reset                                                                   *)
(***************************************************************************)
\* `for device in ...: if device.name.lower() == name.lower(): selected = device;
\* break`: the position of the selected device in ds, 0 for None
RECURSIVE select_from(_, _, _)
select_from(ds, name, k) ==
    IF k > Len(ds) THEN 0
    ELSE IF lower(ds[k].name) = lower(name) THEN k
    ELSE select_from(ds, name, k + 1)

\* Faulty variant: the loop without `break`: the last match is selected
RECURSIVE select_last_from(_, _, _)
select_last_from(ds, name, k) ==
    IF k = 0 THEN 0
    ELSE IF lower(ds[k].name) = lower(name) THEN k
    ELSE select_last_from(ds, name, k - 1)

select_last_by_name(ds, name) == select_last_from(ds, name, Len(ds))

\* Faulty variant: `selected = device` outside the `if`: without a match the last
\* device stays selected
select_any_by_name(ds, name) ==
    IF select_from(ds, name, 1) # 0 THEN select_from(ds, name, 1) ELSE Len(ds)

select_by_name(ds, name) == select_from(ds, name, 1)

\* a ResetException or SetupException reaches the except clause of the command
Critical(exc) ==
    /\ out' = out \o <<Ev("raised", exc, 0, <<>>), Log("critical", exc, 0)>>
    /\ pc' = "done"

\* click_wemo_reset up to the first call of discover_and_log_devices
click_wemo_reset ==
    /\ pc = "start"
    /\ args.cmd = "reset"
    /\ data' = (args.full \/ args.data)
    /\ wifi' = (args.full \/ args.wifi)
    /\ IF args.reset_all
       THEN /\ CallDiscover(FALSE, 0, "reset_all")
            /\ UNCHANGED out
       ELSE IF args.name # None
            THEN /\ CallDiscover(FALSE, 0, "reset_select")
                 /\ UNCHANGED out
            ELSE /\ Critical("ResetException")
                 /\ UNCHANGED <<ret, disc_vars>>
    /\ UNCHANGED <<args, password, det_vars, ren_vars, loop_vars, ap_vars>>

NOTICE_90 == Log("info", "devices will take approximately 90 seconds to reset", 0)

\* Faulty variant: `if click.confirm(...)`, without `devices and`
reset_all_confirm_always ==
    /\ pc = "reset_all"
    /\ \E answer \in BOOLEAN :
          IF answer
          THEN /\ out' = Append(out, Ev("prompt", "confirm", Len(devices), <<"y">>))
               /\ pc' = "reset_loop"
          ELSE /\ out' = out \o <<Ev("prompt", "confirm", Len(devices), <<"n">>), NOTICE_90>>
               /\ pc' = "done"
    /\ i' = 0
    /\ UNCHANGED <<cli_vars, ret, disc_vars, det_vars, ren_vars, selected, ap_vars>>

\* Faulty variant: the answer of click.confirm is not tested
reset_all_confirm_ignored ==
    /\ pc = "reset_all"
    /\ IF devices = <<>>
       THEN /\ out' = Append(out, NOTICE_90)
            /\ pc' = "done"
       ELSE \E answer \in {<<"y">>, <<"n">>} :
               /\ out' = Append(out, Ev("prompt", "confirm", Len(devices), answer))
               /\ pc' = "reset_loop"
    /\ i' = 0
    /\ UNCHANGED <<cli_vars, ret, disc_vars, det_vars, ren_vars, selected, ap_vars>>

\* --reset-all after discovery: the warning about --name and
\* `if devices and click.confirm(...)`
reset_all_confirm ==
    /\ pc = "reset_all"
    /\ LET warned == IF args.name # None
                     THEN Append(out, Log("warning", "name ignored", 0))
                     ELSE out
       IN  IF devices = <<>>
           THEN /\ out' = Append(warned, NOTICE_90)
                /\ pc' = "done"
           ELSE \E answer \in BOOLEAN :
                   IF answer
                   THEN /\ out' = Append(warned, Ev("prompt", "confirm", Len(devices), <<"y">>))
                        /\ pc' = "reset_loop"
                   ELSE /\ out' = warned \o <<Ev("prompt", "confirm", Len(devices), <<"n">>),
                                              NOTICE_90>>
                        /\ pc' = "done"
    /\ i' = 0
    /\ UNCHANGED <<cli_vars, ret, disc_vars, det_vars, ren_vars, selected, ap_vars>>

\* what device.reset and device.setup can do
ResetOutcomes == {"ok", "ResetException"}
SetupOutcomes == {"ok", "SetupException"}

\* Faulty variant: the loop without its try/except: a ResetException ends the command
reset_all_device_fatal ==
    /\ pc = "reset_loop"
    /\ i < Len(devices)
    /\ i' = i + 1
    /\ \E outcome \in ResetOutcomes :
          IF outcome = "ok"
          THEN /\ out' = Append(out, Ev("call", "reset", i + 1, <<data, wifi>>))
               /\ UNCHANGED pc
          ELSE /\ out' = out \o << Ev("call", "reset", i + 1, <<data, wifi>>),
                                   Ev("raised", outcome, 0, <<>>),
                                   Log("critical", outcome, 0) >>
               /\ pc' = "done"
    /\ UNCHANGED <<cli_vars, ret, disc_vars, det_vars, ren_vars, selected, ap_vars>>

\* one turn of `for device in devices` of --reset-all
reset_all_device ==
    /\ pc = "reset_loop"
    /\ i < Len(devices)
    /\ i' = i + 1
    /\ \E outcome \in ResetOutcomes :
          out' = out \o <<Ev("call", "reset", i + 1, <<data, wifi>>)>>
                     \o (IF outcome = "ok" THEN <<>>
                         ELSE << Ev("raised", outcome, i + 1, <<>>),
                                 Log("error", outcome, i + 1),
                                 Log("error", "thus skipping", i + 1) >>)
    /\ UNCHANGED <<cli_vars, pc, ret, disc_vars, det_vars, ren_vars, selected, ap_vars>>

reset_all_return ==
    /\ pc = "reset_loop"
    /\ i = Len(devices)
    /\ out' = Append(out, NOTICE_90)
    /\ pc' = "done"
    /\ UNCHANGED <<cli_vars, ret, disc_vars, det_vars, ren_vars, loop_vars, ap_vars>>

\* --name after discovery: the loop that selects, and the raise when it finds none
reset_select ==
    /\ pc = "reset_select"
    /\ selected' = select_by_name(devices, args.name[1])
    /\ IF selected' = 0
       THEN Critical("ResetException")
       ELSE pc' = "reset_selected" /\ UNCHANGED out
    /\ UNCHANGED <<cli_vars, ret, disc_vars, det_vars, ren_vars, i, ap_vars>>

\* selected.reset(data=data, wifi=wifi) and the notice after it
reset_selected ==
    /\ pc = "reset_selected"
    /\ \E outcome \in ResetOutcomes :
          IF outcome = "ok"
          THEN /\ out' = out \o <<Ev("call", "reset", selected, <<data, wifi>>), NOTICE_90>>
               /\ pc' = "done"
          ELSE /\ out' = out \o << Ev("call", "reset", selected, <<data, wifi>>),
                                   Ev("raised", outcome, 0, <<>>),
                                   Log("critical", outcome, 0) >>
               /\ pc' = "done"
    /\ UNCHANGED <<cli_vars, ret, disc_vars, det_vars, ren_vars, loop_vars, ap_vars>>

(***************************************************************************)
(* find_wemo_aps                                                           *)
(***************************************************************************)
\* The networks nmcli can list.  A hidden network has an empty SSID.
SSIDs == {SSID_WEMO_L, SSID_WEMO_K, SSID_MYWEMO, <<>>}
IN_USE == <<"*">>
NOT_IN_USE == <<" ">>
Networks == [ssid : SSIDs, in_use : {IN_USE, NOT_IN_USE}]
NetworkLists == SeqsUpTo(Networks, MaxNets)

\* the line `nmcli --get-values SSID,IN-USE,CHAN,SIGNAL,SECURITY` prints for a network
nmcli_line(net) ==
    join(":", <<net.ssid, net.in_use, <<"6">>, <<"7","0">>, <<"W","P","A","2">>>>)

\* the body of `for line in stdout.split('\n')` on one line: the new
\* (wemo_networks, current_network), or "ValueError" when the line does not
\* unpack into five fields
scan_line(line, wemo_networks, current_network) ==
    IF strip(line) = <<>> THEN <<wemo_networks, current_network>>
    ELSE LET fields == rsplit(line, ":", 4) IN
         IF Len(fields) # 5 THEN "ValueError"
         ELSE LET ssid == fields[1]
                  in_use == fields[2]
              IN  << IF startswith(lower(ssid), WEMO_PREFIX)
                     THEN Append(wemo_networks, ssid)
                     ELSE wemo_networks,
                     IF in_use = IN_USE
                     THEN (IF current_network # <<>> THEN current_network ELSE ssid)
                     ELSE current_network >>

RECURSIVE scan_lines(_, _, _)
scan_lines(lines, wemo_networks, current_network) ==
    IF lines = <<>> THEN <<wemo_networks, current_network>>
    ELSE LET r == scan_line(Head(lines), wemo_networks, current_network) IN
         IF r = "ValueError" THEN r
         ELSE scan_lines(Tail(lines), r[1], r[2])

\* stdout.split('\n') of the output for a list of networks; '' splits into ['']
stdout_lines(nets) ==
    IF nets = <<>> THEN << <<>> >> ELSE [k \in 1..Len(nets) |-> nmcli_line(nets[k])]

NmcliOutcomes == {"ok", "FileNotFoundError", "CalledProcessError"}

NmcliRun(what, n, arg) == Ev("nmcli", what, n, arg)

\* find_wemo_aps, as click_wemo_setup calls it
find_wemo_aps ==
    /\ pc = "find_wemo_aps"
    /\ \E outcome \in NmcliOutcomes :
          IF outcome = "FileNotFoundError"
          THEN /\ out' = out \o << NmcliRun("rescan", 0, <<>>),
                                   Ev("raised", "SetupException", 0, <<>>),
                                   Log("critical", "SetupException", 0) >>
               /\ pc' = "done"
               /\ UNCHANGED <<networks, wemo_aps, current>>
          ELSE IF outcome = "CalledProcessError"
          THEN /\ out' = out \o << NmcliRun("rescan", 0, <<>>),
                                   NmcliRun("list", 0, <<>>),
                                   Ev("raised", "SetupException", 0, <<>>),
                                   Log("critical", "SetupException", 0) >>
               /\ pc' = "done"
               /\ UNCHANGED <<networks, wemo_aps, current>>
          ELSE \E nets \in NetworkLists :
                  LET r == scan_lines(stdout_lines(nets), <<>>, <<>>) IN
                  /\ networks' = nets
                  /\ IF r = "ValueError"
                     THEN /\ Crash("ValueError")
                          /\ UNCHANGED <<wemo_aps, current>>
                     ELSE /\ out' = out \o << NmcliRun("rescan", 0, <<>>),
                                              NmcliRun("list", 0, <<>>) >>
                                        \o (IF nets = <<>>
                                            THEN <<Log("warning", "no result from nmcli", 0)>>
                                            ELSE <<>>)
                          /\ wemo_aps' = r[1]
                          /\ current' = r[2]
                          /\ pc' = "setup_all"
    /\ UNCHANGED <<cli_vars, ret, disc_vars, det_vars, ren_vars, loop_vars, ai, pushed>>

(***************************************************************************)
(* setup                                                                   *)
(***************************************************************************)
\* click_wemo_setup up to the first call it makes
click_wemo_setup ==
    /\ pc = "start"
    /\ args.cmd = "setup"
    /\ IF args.setup_all
       THEN /\ out' = Append(out, Log("info", "NOTE", 0))
            /\ pc' = "find_wemo_aps"
            /\ UNCHANGED <<ret, disc_vars>>
       ELSE IF args.name # None
            THEN /\ out' = Append(out, Log("info", "NOTE", 0))
                 /\ CallDiscover(FALSE, 0, "setup_select")
            ELSE /\ out' = out \o << Log("info", "NOTE", 0),
                                     Ev("raised", "SetupException", 0, <<>>),
                                     Log("critical", "SetupException", 0) >>
                 /\ pc' = "done"
                 /\ UNCHANGED <<ret, disc_vars>>
    /\ UNCHANGED <<cli_vars, det_vars, ren_vars, loop_vars, ap_vars>>

\* --setup-all after the scan: the raise when no AP was found, the
\* confirmation, and getpass() when there is no password
setup_all_confirm ==
    /\ pc = "setup_all"
    /\ networks' = <<>>
    /\ ai' = 0
    /\ IF wemo_aps = <<>>
       THEN Critical("SetupException") /\ UNCHANGED password
       ELSE \E answer \in BOOLEAN :
               IF ~answer
               THEN /\ out' = Append(out, Ev("prompt", "confirm", Len(wemo_aps), <<"n">>))
                    /\ pc' = "done"
                    /\ UNCHANGED password
               ELSE /\ pc' = "ap_loop"
                    /\ IF password = <<>>
                       THEN \E typed \in Passwords :
                               /\ password' = typed
                               /\ out' = out \o
                                    << Ev("prompt", "confirm", Len(wemo_aps), <<"y">>),
                                       Ev("prompt", "getpass", 0, <<>>) >>
                       ELSE /\ out' = Append(out,
                                        Ev("prompt", "confirm", Len(wemo_aps), <<"y">>))
                            /\ UNCHANGED password
    /\ UNCHANGED <<args, data, wifi, ret, disc_vars, det_vars, ren_vars, loop_vars,
                   wemo_aps, current, pushed>>

SkipAP(n) ==
    << Ev("raised", "SetupException", n, <<>>),
       Log("error", "SetupException", n),
       Log("error", "thus skipping", n) >>

\* a turn of `for wemo_ap in wemo_aps`, up to the call of
\* discover_and_log_devices in connect_to_wemo_and_setup
connect_to_wemo ==
    /\ pc = "ap_loop"
    /\ ai < Len(wemo_aps)
    /\ ai' = ai + 1
    /\ pushed' = <<>>
    /\ i' = 0
    /\ \E outcome \in NmcliOutcomes :
          IF outcome = "ok"
          THEN /\ out' = out \o << NmcliRun("connect", ai + 1, wemo_aps[ai + 1]),
                                   Log("info", "searching for wemo devices", ai + 1) >>
               /\ CallDiscover(TRUE, 0, "ap_setup")
          ELSE /\ out' = out \o <<NmcliRun("connect", ai + 1, wemo_aps[ai + 1])>>
                             \o SkipAP(ai + 1)
               /\ UNCHANGED <<pc, ret, disc_vars>>
    /\ UNCHANGED <<cli_vars, det_vars, ren_vars, selected, networks, wemo_aps, current>>

Push(n, pw, outcome) == [n |-> n, password |-> pw, outcome |-> outcome]

\* Faulty variant: the loop over the APs without its try/except: a SetupException of
\* device.setup ends the command
and_setup_fatal ==
    /\ pc = "ap_setup"
    /\ i < Len(devices)
    /\ i' = i + 1
    /\ \E outcome \in SetupOutcomes :
          /\ pushed' = Append(pushed, Push(i + 1, password, outcome))
          /\ IF outcome = "ok"
             THEN UNCHANGED <<pc, out, devices>>
             ELSE /\ Critical(outcome)
                  /\ devices' = <<>>
    /\ UNCHANGED <<cli_vars, ret, only_needing_setup, verbose, di, not_setup, det_vars,
                   ren_vars, selected, networks, wemo_aps, current, ai>>

\* a turn of `for device in devices` of connect_to_wemo_and_setup
and_setup ==
    /\ pc = "ap_setup"
    /\ i < Len(devices)
    /\ i' = i + 1
    /\ \E outcome \in SetupOutcomes :
          /\ pushed' = Append(pushed, Push(i + 1, password, outcome))
          /\ IF outcome = "ok"
             THEN UNCHANGED <<pc, out, devices>>
             ELSE /\ out' = out \o SkipAP(ai)
                  /\ pc' = "ap_loop"
                  /\ devices' = <<>>
    /\ UNCHANGED <<cli_vars, ret, only_needing_setup, verbose, di, not_setup, det_vars,
                   ren_vars, selected, networks, wemo_aps, current, ai>>

\* connect_to_wemo_and_setup returns
and_setup_return ==
    /\ pc = "ap_setup"
    /\ i = Len(devices)
    /\ pc' = "ap_loop"
    /\ devices' = <<>>
    /\ UNCHANGED <<cli_vars, ret, out, only_needing_setup, verbose, di, not_setup,
                   det_vars, ren_vars, loop_vars, ap_vars>>

\* Faulty variant: `current.startswith('wemo.')`, without `.lower()`
should_reconnect_case_sensitive(cur) == cur # <<>> /\ ~startswith(cur, WEMO_PREFIX)

\* `if current and not current.lower().startswith('wemo.')`
should_reconnect(cur) == cur # <<>> /\ ~startswith(lower(cur), WEMO_PREFIX)

\* after the loop over the APs: the attempt to rejoin the network of the host
setup_all_reconnect ==
    /\ pc = "ap_loop"
    /\ ai = Len(wemo_aps)
    /\ pc' = "done"
    /\ IF should_reconnect(current)
       THEN \E outcome \in NmcliOutcomes :
               out' = out \o << Log("info", "attempting to reconnect host", 0),
                                NmcliRun("connect", 0, current) >>
                          \o (IF outcome = "ok" THEN <<>>
                              ELSE <<Ev("raised", outcome, 0, <<>>)>>)
       ELSE UNCHANGED out
    /\ UNCHANGED <<cli_vars, ret, disc_vars, det_vars, ren_vars, loop_vars, ap_vars>>

\* --name after discovery: the loop that selects, and the raise when it finds none
setup_select ==
    /\ pc = "setup_select"
    /\ selected' = select_by_name(devices, args.name[1])
    /\ IF selected' = 0
       THEN Critical("SetupException")
       ELSE pc' = "setup_selected" /\ UNCHANGED out
    /\ UNCHANGED <<cli_vars, ret, disc_vars, det_vars, ren_vars, i, ap_vars>>

\* selected.setup(ssid=ssid, password=password)
setup_selected ==
    /\ pc = "setup_selected"
    /\ \E outcome \in SetupOutcomes :
          /\ pushed' = Append(pushed, Push(selected, password, outcome))
          /\ IF outcome = "ok"
             THEN pc' = "done" /\ UNCHANGED out
             ELSE Critical(outcome)
    /\ UNCHANGED <<cli_vars, ret, disc_vars, det_vars, ren_vars, loop_vars, networks,
                   wemo_aps, current, ai>>

Next ==
    \/ wemo_discover
    \/ click_wemo_setup
    \/ find_wemo_aps
    \/ setup_all_confirm
    \/ connect_to_wemo
    \/ and_setup
    \/ and_setup_return
    \/ setup_all_reconnect
    \/ setup_select
    \/ setup_selected
    \/ click_wemo_reset
    \/ reset_all_confirm
    \/ reset_all_device
    \/ reset_all_return
    \/ reset_select
    \/ reset_selected
    \/ wemo_rename
    \/ rename_read_row
    \/ rename_discover
    \/ rename_device
    \/ rename_return
    \/ discover_devices
    \/ discover_needing_setup
    \/ discover_found_device
    \/ discover_return
    \/ log_details_call
    \/ log_details_return

Spec == Init /\ [][Next]_vars

(***************************************************************************)
(* Properties                                                              *)
(***************************************************************************)
\* positions in out of the entries of a kind
Entries(kind, what) == {k \in DOMAIN out : out[k].kind = kind /\ out[k].what = what}
EntriesOfKind(kind) == {k \in DOMAIN out : out[k].kind = kind}

InRenameLoop == args.cmd = "rename" /\ pc \in {"rename_loop", "done"}

\* C1: rename, UDN precedence.  Every ChangeFriendlyName call passes the name
\* of the UDN map when the UDN of the device is a key of it, whatever the IP
\* map holds for the IP of the device, and the name of the IP map only when the
\* UDN is not a key; every device whose UDN is a key is renamed.
C1_UdnPrecedence ==
    InRenameLoop =>
        /\ \A k \in Entries("call", "ChangeFriendlyName") :
              LET d == devices[out[k].n] IN
              IF d.udn \in DOMAIN udn_to_name
              THEN out[k].arg = udn_to_name[d.udn]
              ELSE d.host \in DOMAIN ip_to_name /\ out[k].arg = ip_to_name[d.host]
        /\ \A n \in 1..i :
              devices[n].udn \in DOMAIN udn_to_name =>
                  \E k \in Entries("call", "ChangeFriendlyName") : out[k].n = n

\* a device was renamed whose UDN and IP are both keys, with different names
C1_Witness ==
    /\ InRenameLoop
    /\ \E k \in Entries("call", "ChangeFriendlyName") :
          LET d == devices[out[k].n] IN
          /\ d.udn \in DOMAIN udn_to_name
          /\ d.host \in DOMAIN ip_to_name
          /\ ip_to_name[d.host] # udn_to_name[d.udn]

\* the row the parser has just read, and the dicts as they were before it
RowWasRead == args.cmd = "rename" /\ ret = "none" /\ i > 0 /\ pc \in {"read_rows", "crashed"}
BeginsWithHash(r) == r # <<>> /\ r[1] # <<>> /\ r[1][1] = "#"
Ignored(r) == BeginsWithHash(r) \/ Len(r) < 3
RowAddsNothing == udn_to_name = before[1] /\ ip_to_name = before[2]

\* C2: the parser of the rename file.  After any row: (i) an empty UDN with an
\* IP and a name adds the name to the IP map and nothing to the UDN map, (ii) an
\* empty or blank name adds nothing, (iii) a row beginning with '#' or with
\* fewer than 3 fields adds nothing; and no row makes the load fail.
C2_ParserAsClaimed ==
    RowWasRead =>
        /\ pc # "crashed"
        /\ Ignored(row) => RowAddsNothing
        /\ (~Ignored(row) /\ strip(row[3]) = <<>>) => RowAddsNothing
        /\ (~Ignored(row) /\ strip(row[1]) = <<>> /\ strip(row[2]) # <<>>
              /\ strip(row[3]) # <<>>) =>
                  /\ udn_to_name = before[1]
                  /\ ip_to_name = Put(before[2], strip(row[2]), strip(row[3]))

\* the first position of ds whose name equals name when case is ignored, or 0
Matches(d, name) == lower(d.name) = lower(name)
FirstMatch(ds, name) ==
    IF \E k \in DOMAIN ds : Matches(ds[k], name)
    THEN CHOOSE k \in DOMAIN ds :
            /\ Matches(ds[k], name)
            /\ \A j \in 1..(k - 1) : ~Matches(ds[j], name)
    ELSE 0

ResetAll == args.cmd = "reset" /\ args.reset_all
SetupAll == args.cmd = "setup" /\ args.setup_all
ByName(cmd) ==
    /\ args.cmd = cmd
    /\ ~args.reset_all /\ ~args.setup_all
    /\ args.name # None
Confirmed == \E k \in Entries("prompt", "confirm") : out[k].arg = <<"y">>
Last(s) == s[Len(s)]

\* the reset calls that were not followed by a ResetException
Succeeded ==
    {k \in Entries("call", "reset") :
        ~(k + 1 \in DOMAIN out /\ out[k + 1].kind = "raised")}

\* C3: reset-all.  Once the user has confirmed, device.reset is called once
\* on each device in discovery order; a ResetException is logged with the
\* device that is skipped and the loop goes on; when the command is done all N
\* devices were attempted, N - M resets succeeded for M exceptions, and no
\* critical line was logged.
C3_ResetAllContinues ==
    (ResetAll /\ Confirmed) =>
        /\ pc \in {"reset_loop", "done"}
        /\ Cardinality(Entries("call", "reset")) = i
        /\ \A n \in 1..i : \E k \in Entries("call", "reset") : out[k].n = n
        /\ \A k1, k2 \in Entries("call", "reset") : k1 < k2 => out[k1].n < out[k2].n
        /\ \A k \in Entries("raised", "ResetException") :
              /\ k - 1 \in Entries("call", "reset")
              /\ out[k].n = out[k - 1].n
              /\ k + 2 \in DOMAIN out
              /\ out[k + 1] = Log("error", "ResetException", out[k].n)
              /\ out[k + 2] = Log("error", "thus skipping", out[k].n)
        /\ EntriesOfKind("critical") = {}
        /\ pc = "done" =>
              /\ i = Len(devices)
              /\ Cardinality(Succeeded)
                   = Len(devices) - Cardinality(Entries("raised", "ResetException"))
              /\ Last(out) = NOTICE_90

\* the command is done with two devices: the reset of the first one failed
\* and the second one was reset
C3_Witness ==
    /\ ResetAll /\ Confirmed /\ pc = "done"
    /\ Len(devices) = 2
    /\ \E k \in Entries("raised", "ResetException") : out[k].n = 1
    /\ \E k \in Succeeded : out[k].n = 2

\* C4: selection by name.  reset --name and setup --name act on the first
\* device in discovery order whose name equals the target when case is
\* ignored, on that device only, and at most once.
C4_FirstExactMatch ==
    /\ (ByName("reset") /\ pc \in {"reset_selected", "done"}) =>
          /\ \A k \in Entries("call", "reset") :
                out[k].n # 0 /\ out[k].n = FirstMatch(devices, args.name[1])
          /\ Cardinality(Entries("call", "reset")) <= 1
          /\ pc = "reset_selected" =>
                selected # 0 /\ selected = FirstMatch(devices, args.name[1])
          /\ (pc = "done" /\ FirstMatch(devices, args.name[1]) # 0) =>
                Entries("call", "reset") # {}
    /\ (ByName("setup") /\ pc \in {"setup_selected", "done"}) =>
          /\ \A k \in DOMAIN pushed :
                pushed[k].n # 0 /\ pushed[k].n = FirstMatch(devices, args.name[1])
          /\ Len(pushed) <= 1
          /\ pc = "setup_selected" =>
                selected # 0 /\ selected = FirstMatch(devices, args.name[1])
          /\ (pc = "done" /\ FirstMatch(devices, args.name[1]) # 0) => pushed # <<>>

\* devices 'Lamp' and 'LAMP', target 'LAMP': the first one was reset
C4_Witness ==
    /\ ByName("reset") /\ pc = "done"
    /\ args.name = Some(LAMP)
    /\ Len(devices) = 2 /\ devices[1].name = Lamp /\ devices[2].name = LAMP
    /\ \E k \in Entries("call", "reset") : out[k].n = 1

\* discover_and_log_devices has returned to the command
DiscoveryReturned == ret # "none" /\ pc \notin {"discover", "dev_loop", "log_details", "crashed"}
Found0 == \E k \in Entries("info", "found devices") : out[k].n = 0
NothingDone ==
    /\ EntriesOfKind("call") = {}
    /\ EntriesOfKind("prompt") = {}
    /\ EntriesOfKind("nmcli") = {}
    /\ pushed = <<>>

\* C5 as claimed: when discovery returns no devices, every workflow,
\* --setup-all included, has shown no prompt and joined no network, logs
\* 'found 0 devices' and does nothing more.
C5_AsClaimed ==
    /\ (pc = "dev_loop" /\ devices = <<>>) =>
          EntriesOfKind("prompt") = {} /\ Entries("nmcli", "connect") = {}
    /\ (DiscoveryReturned /\ devices = <<>> /\ ~SetupAll) => Found0 /\ NothingDone

\* C5: when discovery returns no devices, list, rename, reset --name, reset
\* --reset-all and setup --name log 'found 0 devices' and then call no device,
\* run no nmcli and show no prompt.  --setup-all discovers only after the
\* prompt and a join, logs no 'found N devices' line, and pushes nothing on an
\* access point whose discovery returned no device.
C5_ZeroDevices ==
    /\ (DiscoveryReturned /\ devices = <<>> /\ ~SetupAll) => Found0 /\ NothingDone
    /\ SetupAll =>
          /\ Entries("info", "found devices") = {}
          /\ pc \in {"discover", "dev_loop"} => Confirmed /\ Entries("nmcli", "connect") # {}
          /\ (pc = "ap_setup" /\ devices = <<>>) => pushed = <<>>

\* reset --reset-all is done after a discovery that returned no devices
C5_Witness ==
    /\ ResetAll /\ pc = "done" /\ DiscoveryReturned
    /\ devices = <<>>
    /\ Found0

\* the SSIDs nmcli listed that are Wemo access points, in the order listed
RECURSIVE WemoSSIDs(_)
WemoSSIDs(nets) ==
    IF nets = <<>> THEN <<>>
    ELSE (IF startswith(lower(Head(nets).ssid), WEMO_PREFIX)
          THEN <<Head(nets).ssid>> ELSE <<>>)
         \o WemoSSIDs(Tail(nets))

\* the SSID of the first network flagged in use, '' when none is
FirstInUse(nets) ==
    IF \E k \in DOMAIN nets : nets[k].in_use = IN_USE
    THEN nets[CHOOSE k \in DOMAIN nets :
                 /\ nets[k].in_use = IN_USE
                 /\ \A j \in 1..(k - 1) : nets[j].in_use # IN_USE].ssid
    ELSE <<>>

\* C6: the scan.  find_wemo_aps returns the SSIDs that start with 'wemo.' when
\* lower-cased, in the order listed, and the SSID of the first network flagged
\* in use, or '' when none is flagged.
C6_ScanAsClaimed ==
    pc = "setup_all" =>
        /\ wemo_aps = WemoSSIDs(networks)
        /\ current = FirstInUse(networks)

\* the exceptions that are a missing field, an absent capability or a
\* mismatch of arguments
Recoverable == {"AttributeError", "KeyError", "TypeError"}

\* C7 as claimed: no error of a diagnostic call aborts the list workflow.
C7_AsClaimed == args.cmd = "list" => pc # "crashed"

\* how often call n of data_to_print shows in the report or is deferred
Reported(n) ==
    Cardinality({k \in DOMAIN report : report[k].call = n})
    + (IF pc = "log_details"
       THEN Cardinality({k \in DOMAIN failed_calls : failed_calls[k].call = n})
       ELSE 0)

\* C7: list.  An AttributeError, KeyError or TypeError of a diagnostic call
\* becomes one warning line and the next call is made: every call made so far
\* is reported once, a warning line is a call that raised, a device is left
\* only with all its calls made, and 'found N devices' ends the command; only
\* an exception of another kind aborts the listing.
C7_ListContinues ==
    args.cmd = "list" =>
        /\ pc = "crashed" =>
              Last(out).kind = "exception" /\ Last(out).what \notin Recoverable
        /\ pc \in {"log_details", "dev_loop"} =>
              /\ \A n \in 1..ci : Reported(n) = 1
              /\ \A k \in DOMAIN report :
                    report[k].raised <=> report[k].sect = "warning"
        /\ (pc = "dev_loop" /\ di > 0) => ci = Len(data_to_print(verbose))
        /\ pc = "done" => Last(out) = Log("info", "found devices", Len(devices))

\* the second device of a listing: a call raised, a warning line was printed
\* and the next call was made and printed
C7_Witness ==
    /\ args.cmd = "list" /\ pc = "dev_loop" /\ di = 2
    /\ \E k \in DOMAIN report :
          /\ report[k].sect = "warning"
          /\ k + 1 \in DOMAIN report
          /\ report[k + 1].sect = "main"

\* C8: the password prompt of setup.  With no --password, getpass has prompted
\* before any device.setup call, with --setup-all and with --name.
C8_PromptAsClaimed ==
    (args.cmd = "setup" /\ args.password = <<>> /\ pushed # <<>>) =>
        Entries("prompt", "getpass") # {}

NoMatch == \A k \in DOMAIN devices : ~Matches(devices[k], args.name[1])

\* C9: the target is not found.  reset and setup without the all-flag, with a
\* --name no device matches or with no --name, call no reset and no setup, log
\* one critical line for the exception, which does not escape, and do not log
\* the 90 seconds notice.
C9_TargetNotFound ==
    /\ (args.cmd \in {"reset", "setup"} /\ ~args.reset_all /\ ~args.setup_all
          /\ pc = "done" /\ (args.name = None \/ NoMatch)) =>
          /\ Entries("call", "reset") = {}
          /\ pushed = <<>>
          /\ Cardinality(EntriesOfKind("critical")) = 1
          /\ Len(out) >= 2
          /\ out[Len(out) - 1].kind = "raised"
          /\ Last(out) = Log("critical", out[Len(out) - 1].what, 0)
          /\ \A k \in DOMAIN out : out[k] # NOTICE_90
    /\ (args.cmd \in {"reset", "setup"} /\ pc = "crashed") =>
          Last(out).what \notin {"ResetException", "SetupException"}

\* reset --name Bulb is done after the discovery of devices of other names
C9_Witness ==
    /\ ByName("reset") /\ pc = "done"
    /\ args.name = Some(Bulb)
    /\ devices # <<>>
    /\ EntriesOfKind("critical") # {}

\* the joins of access points, as positions in out
Joins == {k \in Entries("nmcli", "connect") : out[k].n > 0}

Reconnects == {k \in Entries("nmcli", "connect") : out[k].n = 0}

\* the network of the host is one to go back to: it has a name and the name
\* does not begin with 'wemo.' in any case
HostNetworkToRejoin ==
    /\ current # <<>>
    /\ ~(Len(current) >= 5 /\ lower(SubSeq(current, 1, 5)) = <<"w", "e", "m", "o", ".">>)

Section(sect) == {k \in DOMAIN report : report[k].sect = sect}

\* the report of a device of a listing is complete
ReportComplete == args.cmd = "list" /\ pc = "dev_loop" /\ di > 0

\* C12: list, the deferral of faults.  While the report of a device is
\* written, no call that answered with the fault marker is in the main
\* section, the deferred calls are the ones with the marker, and a call without
\* it that did not raise is in the main section, with the field asked for
\* when the result holds it and with the whole result otherwise.  In the
\* complete report the deferred calls follow every other line, in call order,
\* after one header that is there exactly when a call was deferred, and every
\* call shows exactly once.
C12_FaultDeferral ==
    /\ (args.cmd = "list" /\ pc = "log_details") =>
          /\ \A k \in DOMAIN report : report[k].sect \in {"main", "warning"}
          /\ \A k \in DOMAIN failed_calls : HasFaultMarker(failed_calls[k].result)
          /\ \A k1, k2 \in DOMAIN failed_calls :
                k1 < k2 => failed_calls[k1].call < failed_calls[k2].call
    /\ (args.cmd = "list" /\ pc \in {"log_details", "dev_loop"}) =>
          /\ \A k \in Section("main") :
                /\ ~report[k].marker /\ ~report[k].raised
                /\ report[k].shown = "field" <=>
                      (data_to_print(verbose)[report[k].call].key # None /\ report[k].has_key)
                /\ report[k].shown \in {"field", "whole"}
          /\ \A k1, k2 \in Section("main") \cup Section("warning") :
                k1 < k2 => report[k1].call < report[k2].call
    /\ ReportComplete =>
          /\ \A n \in 1..Len(data_to_print(verbose)) :
                Cardinality({k \in DOMAIN report : report[k].call = n}) = 1
          /\ \A k \in Section("failed") :
                /\ report[k].marker
                /\ report[k].shown = "whole"
                /\ \A j \in Section("main") \cup Section("warning") \cup Section("header") :
                      j < k
          /\ \A k1, k2 \in Section("failed") : k1 < k2 => report[k1].call < report[k2].call
          /\ Cardinality(Section("header")) = (IF Section("failed") # {} THEN 1 ELSE 0)
          /\ \A k \in DOMAIN report :
                report[k].sect \in {"main", "warning", "header", "failed"}

\* a complete report where an earlier call was deferred behind a later call
\* of the main section
C12_Witness ==
    /\ ReportComplete
    /\ \E f \in Section("failed") : \E m \in Section("main") :
          /\ report[f].call < report[m].call
          /\ m < f
          /\ report[m].shown = "field"

\* the answers to the confirmation prompt, as positions in out
Answers(answer) == {k \in Entries("prompt", "confirm") : out[k].arg = answer}
Declined == Answers(<<"n">>) # {}

\* the actions of a batch in out: resets, password prompts, joins and rejoins
BatchActions ==
    Entries("call", "reset") \cup Entries("prompt", "getpass") \cup Entries("nmcli", "connect")

\* C13: the confirmation gates the batch.  With --reset-all every reset, and
\* with --setup-all every password prompt, join of an access point, push of
\* credentials and rejoin of the host network, comes after a yes to the
\* confirmation prompt; after a no the command is done with none of them, with
\* no critical line and no traceback.
C13_ConfirmationGates ==
    (ResetAll \/ SetupAll) =>
        /\ Cardinality(Entries("prompt", "confirm")) <= 1
        /\ \A k \in BatchActions : \E c \in Answers(<<"y">>) : c < k
        /\ pushed # <<>> => Confirmed
        /\ pc \in {"reset_loop", "ap_loop", "ap_setup"} => Confirmed
        /\ Declined =>
              /\ pc = "done"
              /\ BatchActions = {}
              /\ pushed = <<>>
              /\ EntriesOfKind("critical") = {}
              /\ EntriesOfKind("raised") = {}

\* --setup-all without --password, with an access point found and a network
\* of the host to go back to: the user said no and the command is done
C13_Witness ==
    /\ SetupAll /\ Declined /\ pc = "done"
    /\ args.password = <<>>
    /\ wemo_aps # <<>>
    /\ HostNetworkToRejoin

====
